---- MODULE Spec2Model ----
(***************************************************************************)
(* ClearHeat: the input schema (lib/schema.ts) and the three-step wizard   *)
(* with its request lifecycle (CalculatorWizard: /run, then /pdf).         *)
(*                                                                         *)
(* Values.  A JavaScript value is a record tagged with its typeof:         *)
(*   [t |-> "undefined"], [t |-> "null"], [t |-> "boolean", b |-> ...],    *)
(*   [t |-> "number", v |-> n], [t |-> "string", s |-> <<chars>>].         *)
(* Numbers are fixed-point, counted in hundredths (1.1 is 110, 120 is      *)
(* 12000), so that the fractional defaults and a value such as 2.5 are     *)
(* exact.  A string is the sequence of its characters.                     *)
(***************************************************************************)
EXTENDS Integers, Sequences, FiniteSets, TLC

\* ------------------------------------------------------------- bounds
\* The largest number of /pdf requests issued in one wizard session.
MaxDownloads == 2

\* ------------------------------------------------------------- values
Undef == [t |-> "undefined"]
Null == [t |-> "null"]
Bool(b) == [t |-> "boolean", b |-> b]
Num(v) == [t |-> "number", v |-> v]
Str(s) == [t |-> "string", s |-> s]

\* n whole units, in hundredths
H(n) == 100 * n

\* ------------------------------------------------------------- strings
Digits == <<"0", "1", "2", "3", "4", "5", "6", "7", "8", "9">>
IsDigit(c) == \E i \in 1..10 : Digits[i] = c
DigitVal(c) == (CHOOSE i \in 1..10 : Digits[i] = c) - 1
AllDigits(s) == \A i \in 1..Len(s) : IsDigit(s[i])

RECURSIVE TrimLeft(_)
TrimLeft(s) == IF s # <<>> /\ Head(s) = " " THEN TrimLeft(Tail(s)) ELSE s

RECURSIVE TrimRight(_)
TrimRight(s) ==
    IF s # <<>> /\ s[Len(s)] = " "
    THEN TrimRight(SubSeq(s, 1, Len(s) - 1))
    ELSE s

\* String.prototype.trim
trim(s) == TrimRight(TrimLeft(s))

RECURSIVE DigitsVal(_)
DigitsVal(s) ==
    IF s = <<>> THEN 0
    ELSE 10 * DigitsVal(SubSeq(s, 1, Len(s) - 1)) + DigitVal(s[Len(s)])

HasSign(s) == s # <<>> /\ Head(s) \in {"-", "+"}
Unsigned(s) == IF HasSign(s) THEN Tail(s) ELSE s
DotPos(s) ==
    IF \E i \in 1..Len(s) : s[i] = "."
    THEN CHOOSE i \in 1..Len(s) : s[i] = "." /\ \A j \in 1..(i - 1) : s[j] # "."
    ELSE 0
IntPart(u) == IF DotPos(u) = 0 THEN u ELSE SubSeq(u, 1, DotPos(u) - 1)
FracPart(u) == IF DotPos(u) = 0 THEN <<>> ELSE SubSeq(u, DotPos(u) + 1, Len(u))

\* Number(s) is finite: s is a decimal literal, [+-]digits[.digits] with a
\* digit somewhere.  (Exponents, hex and "Infinity" are outside the strings
\* the model draws; fractions carry at most two digits.)
IsNumeric(s) ==
    LET u == Unsigned(s) IN
    /\ AllDigits(IntPart(u))
    /\ AllDigits(FracPart(u))
    /\ Len(IntPart(u)) + Len(FracPart(u)) > 0

\* Number(s), in hundredths
NumberOf(s) ==
    LET u == Unsigned(s)
        fp == FracPart(u)
        frac == IF Len(fp) = 0 THEN 0
                ELSE IF Len(fp) = 1 THEN 10 * DigitVal(fp[1])
                ELSE 10 * DigitVal(fp[1]) + DigitVal(fp[2])
        mag == 100 * DigitsVal(IntPart(u)) + frac
    IN IF s # <<>> /\ Head(s) = "-" THEN 0 - mag ELSE mag

\* ------------------------------------------------------------- schema
\* asNumber: the preprocess step of every numeric field
asNumber(v) ==
    IF v.t = "number" THEN v
    ELSE IF v.t = "string"
    THEN LET s == trim(v.s) IN
         IF s = <<>> THEN Undef
         ELSE IF IsNumeric(s) THEN Num(NumberOf(s)) ELSE v
    ELSE v

\* Mutant: the checkbox field coerced as Boolean(v), as z.coerce.boolean()
boolPre_Coerce(v) ==
    IF v.t = "boolean" THEN v
    ELSE IF v.t = "string" THEN Bool(v.s # <<>>)
    ELSE IF v.t = "number" THEN Bool(v.v # 0)
    ELSE Bool(FALSE)

\* the preprocess step of the checkbox field
boolPre(v) ==
    IF v.t = "boolean" THEN v
    ELSE IF v \in {Str(<<"t", "r", "u", "e">>), Str(<<"o", "n">>), Str(<<"1">>), Num(H(1))}
    THEN Bool(TRUE)
    ELSE IF \/ v \in {Str(<<"f", "a", "l", "s", "e">>), Str(<<"o", "f", "f">>),
                      Str(<<"0">>), Num(0), Str(<<>>)}
            \/ v.t \in {"null", "undefined"}
    THEN Bool(FALSE)
    ELSE v

\* The result of parsing one field: status "valid", "dirty" (a check failed,
\* the value is kept) or "aborted" (no value); codes are the issues raised.
Res(status, value, codes) == [status |-> status, value |-> value, codes |-> codes]

\* Mutant: the upper bound is exclusive
zNumber_ExclusiveMax(v, min, max, int) ==
    IF v.t # "number" THEN Res("aborted", Undef, {"invalid_type"})
    ELSE LET codes == (IF int /\ v.v % 100 # 0 THEN {"not_integer"} ELSE {})
                      \cup (IF v.v < min THEN {"too_small"} ELSE {})
                      \cup (IF v.v >= max THEN {"too_big"} ELSE {})
         IN Res(IF codes = {} THEN "valid" ELSE "dirty", v, codes)

\* z.number() with .min(min).max(max) and, when int, .int()
zNumber(v, min, max, int) ==
    IF v.t # "number" THEN Res("aborted", Undef, {"invalid_type"})
    ELSE LET codes == (IF int /\ v.v % 100 # 0 THEN {"not_integer"} ELSE {})
                      \cup (IF v.v < min THEN {"too_small"} ELSE {})
                      \cup (IF v.v > max THEN {"too_big"} ELSE {})
         IN Res(IF codes = {} THEN "valid" ELSE "dirty", v, codes)

\* num(min, max): z.preprocess(asNumber, z.number().min(min).max(max))
num(v, min, max, int) == zNumber(asNumber(v), min, max, int)

\* numOpt(min, max): the same, wrapped in .optional(): only an input that
\* is undefined itself is let through as absent
numOpt(v, min, max) ==
    IF v.t = "undefined" THEN Res("valid", Undef, {})
    ELSE num(v, min, max, FALSE)

\* bool: z.preprocess(..., z.boolean())
bool(v) ==
    LET p == boolPre(v) IN
    IF p.t = "boolean" THEN Res("valid", p, {})
    ELSE Res("aborted", Undef, {"invalid_type"})

\* z.enum(words): exact match of a string
zEnum(v, words) ==
    IF v.t = "string" /\ v.s \in words THEN Res("valid", v, {})
    ELSE Res("aborted", Undef,
             {IF v.t = "string" THEN "invalid_enum_value" ELSE "invalid_type"})

BerBands == {<<"A">>, <<"B">>, <<"C">>, <<"D">>, <<"E">>, <<"F">>, <<"G">>}
W_radiators == <<"r", "a", "d", "i", "a", "t", "o", "r", "s">>
W_ufh == <<"u", "f", "h">>
W_rare == <<"r", "a", "r", "e">>
W_normal == <<"n", "o", "r", "m", "a", "l">>
W_high == <<"h", "i", "g", "h">>
W_none == <<"n", "o", "n", "e">>
W_some == <<"s", "o", "m", "e">>
W_lots == <<"l", "o", "t", "s">>
W_gas == <<"g", "a", "s">>
W_kerosene == <<"k", "e", "r", "o", "s", "e", "n", "e">>
W_annual_fuel_use ==
    <<"a", "n", "n", "u", "a", "l", "_", "f", "u", "e", "l", "_", "u", "s", "e">>
W_annual_spend ==
    <<"a", "n", "n", "u", "a", "l", "_", "s", "p", "e", "n", "d">>

Fields ==
    {"ber_band", "floor_area_m2", "emitters", "heating_pattern", "wood_use",
     "occupants", "fuel_type", "fuel_price_eur_per_unit",
     "electricity_price_eur_per_kwh", "boiler_efficiency", "hp_quote_eur",
     "grant_applied", "grant_value_eur", "bill_mode", "annual_fuel_use",
     "annual_spend_eur"}

\* the value of key f of a raw object (an absent key reads undefined)
Get(raw, f) == IF f \in DOMAIN raw THEN raw[f] ELSE Undef

\* the object schema, field by field
ParseField(f, v) ==
    CASE f = "ber_band" -> zEnum(v, BerBands)
      [] f = "floor_area_m2" -> num(v, H(20), H(1000), FALSE)
      [] f = "emitters" -> zEnum(v, {W_radiators, W_ufh})
      [] f = "heating_pattern" -> zEnum(v, {W_rare, W_normal, W_high})
      [] f = "wood_use" -> zEnum(v, {W_none, W_some, W_lots})
      [] f = "occupants" -> num(v, H(1), H(20), TRUE)
      [] f = "fuel_type" -> zEnum(v, {W_gas, W_kerosene})
      [] f = "fuel_price_eur_per_unit" -> num(v, 0, H(10), FALSE)
      [] f = "electricity_price_eur_per_kwh" -> num(v, 0, H(10), FALSE)
      [] f = "boiler_efficiency" -> num(v, 30, H(1), FALSE)
      [] f = "hp_quote_eur" -> num(v, 0, H(200000), FALSE)
      [] f = "grant_applied" -> bool(v)
      [] f = "grant_value_eur" -> num(v, 0, H(50000), FALSE)
      [] f = "bill_mode" -> zEnum(v, {W_annual_fuel_use, W_annual_spend, W_none})
      [] f = "annual_fuel_use" -> numOpt(v, 0, H(500000))
      [] f = "annual_spend_eur" -> numOpt(v, 0, H(200000))

\* z.object(...): every key is parsed; one aborted key aborts the object
ObjectIssues(raw) ==
    UNION {{[path |-> f, code |-> c] : c \in ParseField(f, Get(raw, f)).codes} :
             f \in Fields}
ObjectAborted(raw) ==
    \E f \in Fields : ParseField(f, Get(raw, f)).status = "aborted"
ObjectValue(raw) == [f \in Fields |-> ParseField(f, Get(raw, f)).value]

\* .superRefine(...): the cross-field rule, run on the parsed object
\* unless the object parse aborted
RefineIssues(v) ==
    (IF v["bill_mode"] = Str(W_annual_fuel_use)
        /\ v["annual_fuel_use"].t \in {"undefined", "null"}
     THEN {[path |-> "annual_fuel_use", code |-> "custom"]} ELSE {})
    \cup
    (IF v["bill_mode"] = Str(W_annual_spend)
        /\ v["annual_spend_eur"].t \in {"undefined", "null"}
     THEN {[path |-> "annual_spend_eur", code |-> "custom"]} ELSE {})

\* clearHeatSchema.safeParse(raw)
Issues(raw) ==
    ObjectIssues(raw)
    \cup (IF ObjectAborted(raw) THEN {} ELSE RefineIssues(ObjectValue(raw)))
safeParse(raw) ==
    [success |-> Issues(raw) = {}, data |-> ObjectValue(raw), issues |-> Issues(raw)]

\* ------------------------------------------------------------- wizard
\* CalculatorWizard, in the version that keeps the step form and its buttons
\* on screen once the report is ready.  The component is single-threaded:
\* an action below is one event handler, or one continuation of an async
\* function between two awaits, and a state update is rendered before the
\* next event is handled.
VARIABLES
    step,         \* 0, 1, 2: the step shown
    reportReady,  \* the download button is shown
    loading,      \* the generate button is disabled
    lastInputs,   \* Null, or the values of the latest submission
    form,         \* the form's current field values
    errors,       \* formState.errors: the paths with an inline error
    runCalls,     \* the runModel invocations that have not returned
    pdfCalls,     \* the downloadPdf invocations that have not returned
    alert,        \* the message of the open alert() dialog, or "none"
    nPdf,         \* /pdf requests issued so far
    nSaved,       \* file saves triggered so far
    unhandled,    \* an unhandled promise rejection has occurred
    lastRunBody,  \* Null, or the inputs in the body of the latest /run request
    succeeded,    \* the inputs of the /run requests answered with a success status
    request,      \* POST /api/evaluate: the JSON body of the request
    parsed,       \* POST /api/evaluate: the handler's safeParse result, or Undef
    response      \* POST /api/evaluate: the response, or Undef

\* the state of the mock endpoint, which the wizard never calls
route == <<request, parsed, response>>

vars ==
    <<step, reportReady, loading, lastInputs, form, errors, runCalls, pdfCalls,
      alert, nPdf, nSaved, unhandled, lastRunBody, succeeded, route>>

\* Mutant: the defaults without annual_spend_eur, under bill_mode annual_spend
defaultValues_NoSpend ==
    [f \in Fields |->
        CASE f = "ber_band" -> Str(<<"C">>)
          [] f = "floor_area_m2" -> Num(H(120))
          [] f = "emitters" -> Str(W_radiators)
          [] f = "heating_pattern" -> Str(W_normal)
          [] f = "wood_use" -> Str(W_none)
          [] f = "occupants" -> Num(H(2))
          [] f = "fuel_type" -> Str(W_kerosene)
          [] f = "fuel_price_eur_per_unit" -> Num(110)
          [] f = "electricity_price_eur_per_kwh" -> Num(35)
          [] f = "boiler_efficiency" -> Num(85)
          [] f = "hp_quote_eur" -> Num(H(12000))
          [] f = "grant_applied" -> Bool(TRUE)
          [] f = "grant_value_eur" -> Num(H(6500))
          [] f = "bill_mode" -> Str(W_annual_spend)
          [] f = "annual_fuel_use" -> Undef
          [] f = "annual_spend_eur" -> Undef]

\* useForm defaultValues (annual_fuel_use is not among them)
defaultValues ==
    [f \in Fields |->
        CASE f = "ber_band" -> Str(<<"C">>)
          [] f = "floor_area_m2" -> Num(H(120))
          [] f = "emitters" -> Str(W_radiators)
          [] f = "heating_pattern" -> Str(W_normal)
          [] f = "wood_use" -> Str(W_none)
          [] f = "occupants" -> Num(H(2))
          [] f = "fuel_type" -> Str(W_kerosene)
          [] f = "fuel_price_eur_per_unit" -> Num(110)
          [] f = "electricity_price_eur_per_kwh" -> Num(35)
          [] f = "boiler_efficiency" -> Num(85)
          [] f = "hp_quote_eur" -> Num(H(12000))
          [] f = "grant_applied" -> Bool(TRUE)
          [] f = "grant_value_eur" -> Num(H(6500))
          [] f = "bill_mode" -> Str(W_annual_spend)
          [] f = "annual_fuel_use" -> Undef
          [] f = "annual_spend_eur" -> Num(H(2400))]

\* What the user types: an <input type="number"> hands its text to the form.
\* Each field is rendered on one step only.
FormEdits ==
    {[field |-> "floor_area_m2", step |-> 0, value |-> Str(<<"1", "9">>)],
     [field |-> "floor_area_m2", step |-> 0, value |-> Str(<<"2", "0", "0">>)],
     [field |-> "annual_spend_eur", step |-> 1, value |-> Str(<<>>)],
     [field |-> "annual_spend_eur", step |-> 1, value |-> Str(<<"2", "4", "0", "0">>)]}

\* What the backend may answer: a status (ok is 2xx) and a body
Bodies == {"json_result", "json_other", "not_json"}
Parseable(body) == body # "not_json"

Init ==
    /\ step = 0
    /\ reportReady = FALSE
    /\ loading = FALSE
    /\ lastInputs = Null
    /\ form = defaultValues
    /\ errors = {}
    /\ runCalls = <<>>
    /\ pdfCalls = <<>>
    /\ alert = "none"
    /\ nPdf = 0
    /\ nSaved = 0
    /\ unhandled = FALSE
    /\ lastRunBody = Null
    /\ succeeded = {}
    /\ request = Undef
    /\ parsed = Undef
    /\ response = Undef

\* s without its i-th element
Remove(s, i) == SubSeq(s, 1, i - 1) \o SubSeq(s, i + 1, Len(s))

\* A blocking alert() stops every handler until it is dismissed.
Idle == alert = "none"

\* Back button: disabled at step 0
Back ==
    /\ Idle
    /\ step # 0
    /\ step' = step - 1
    /\ UNCHANGED <<reportReady, loading, lastInputs, form, errors, runCalls,
                   pdfCalls, alert, nPdf, nSaved, unhandled, lastRunBody, succeeded, route>>

\* Mutant: the next button moves on only from a form that validates
NextStep_Validated ==
    /\ Idle
    /\ step < 2
    /\ safeParse(form).success
    /\ step' = step + 1
    /\ UNCHANGED <<reportReady, loading, lastInputs, form, errors, runCalls,
                   pdfCalls, alert, nPdf, nSaved, unhandled, lastRunBody, succeeded,
                   route>>

\* Next button: rendered while step < 2
NextStep ==
    /\ Idle
    /\ step < 2
    /\ step' = step + 1
    /\ UNCHANGED <<reportReady, loading, lastInputs, form, errors, runCalls,
                   pdfCalls, alert, nPdf, nSaved, unhandled, lastRunBody, succeeded, route>>

\* The user changes a field of the step shown
EditField ==
    /\ Idle
    /\ \E e \in FormEdits :
          /\ e.step = step
          /\ form' = [form EXCEPT ![e.field] = e.value]
    /\ UNCHANGED <<step, reportReady, loading, lastInputs, errors, runCalls,
                   pdfCalls, alert, nPdf, nSaved, unhandled, lastRunBody, succeeded, route>>

\* Mutant: runModel without setLastInputs(values)
runModel_NoCache(values) ==
    /\ loading' = TRUE
    /\ runCalls' = Append(runCalls, [inputs |-> values, pc |-> "fetch", body |-> "none"])
    /\ lastRunBody' = values
    /\ UNCHANGED <<step, reportReady, lastInputs, form, pdfCalls, alert, nPdf, nSaved,
                   unhandled, succeeded, route>>

\* runModel(values), up to its first await: the /run request is sent
runModel(values) ==
    /\ loading' = TRUE
    /\ lastInputs' = values
    /\ runCalls' = Append(runCalls, [inputs |-> values, pc |-> "fetch", body |-> "none"])
    /\ lastRunBody' = values
    /\ UNCHANGED <<step, reportReady, form, pdfCalls, alert, nPdf, nSaved, unhandled,
                   succeeded, route>>

\* Mutant: the generate button without disabled={loading}
GenerateEnabled_NotDisabled == step = 2

\* The generate button may be clicked: rendered on step 2, disabled={loading}
GenerateEnabled == step = 2 /\ ~loading

\* Mutant: the click handler calls runModel without the resolver's verdict
Generate_NoValidation ==
    /\ Idle
    /\ GenerateEnabled
    /\ errors' = {}
    /\ runModel(safeParse(form).data)

\* Generate report button: form.handleSubmit(runModel) validates through the
\* resolver, and calls runModel with the parsed values only when they pass
Generate ==
    /\ Idle
    /\ GenerateEnabled
    /\ LET r == safeParse(form) IN
       IF r.success
       THEN /\ errors' = {}
            /\ runModel(r.data)
       ELSE /\ errors' = {i.path : i \in r.issues}
            /\ UNCHANGED <<step, reportReady, loading, lastInputs, form, runCalls,
                           pdfCalls, alert, nPdf, nSaved, unhandled, lastRunBody, succeeded, route>>

\* runModel, the catch block: alert(e?.message ?? ...) opens and blocks
runModelCatch(i, message) ==
    /\ alert' = message
    /\ runCalls' = [runCalls EXCEPT ![i].pc = "alert"]
    /\ UNCHANGED <<step, reportReady, loading, lastInputs, form, errors, pdfCalls,
                   nPdf, nSaved, unhandled, lastRunBody, succeeded, route>>

\* runModel, the finally block, after which the invocation is over
runModelFinally(i) ==
    /\ loading' = FALSE
    /\ runCalls' = Remove(runCalls, i)

\* await fetch(.../run) settles: it rejects (transport failure), or resolves
\* with a response; !res.ok throws, otherwise res.json() is awaited
RunFetchSettles ==
    /\ Idle
    /\ \E i \in 1..Len(runCalls) :
          /\ runCalls[i].pc = "fetch"
          /\ \/ runModelCatch(i, "Failed to fetch")
             \/ runModelCatch(i, "Evaluation failed")
             \/ \E body \in Bodies :
                   /\ runCalls' = [runCalls EXCEPT ![i].pc = "json", ![i].body = body]
                   /\ succeeded' = succeeded \cup {runCalls[i].inputs}
                   /\ UNCHANGED <<step, reportReady, loading, lastInputs, form, errors,
                                  pdfCalls, alert, nPdf, nSaved, unhandled, lastRunBody,
                                  route>>

\* Mutant: the report is unlocked only when the body holds a result
RunJsonSettles_ReadsBody ==
    /\ Idle
    /\ \E i \in 1..Len(runCalls) :
          /\ runCalls[i].pc = "json"
          /\ IF Parseable(runCalls[i].body)
             THEN /\ reportReady' = (reportReady \/ runCalls[i].body = "json_result")
                  /\ runModelFinally(i)
                  /\ UNCHANGED <<step, lastInputs, form, errors, pdfCalls, alert,
                                 nPdf, nSaved, unhandled, lastRunBody, succeeded, route>>
             ELSE runModelCatch(i, "Unexpected token")

\* Mutant: res.json() is awaited outside the try block, so that its
\* rejection is caught by nobody and the finally block does not run
RunJsonSettles_Unguarded ==
    /\ Idle
    /\ \E i \in 1..Len(runCalls) :
          /\ runCalls[i].pc = "json"
          /\ IF Parseable(runCalls[i].body)
             THEN /\ reportReady' = TRUE
                  /\ runModelFinally(i)
                  /\ UNCHANGED <<step, lastInputs, form, errors, pdfCalls, alert,
                                 nPdf, nSaved, unhandled, lastRunBody, succeeded, route>>
             ELSE /\ unhandled' = TRUE
                  /\ runCalls' = Remove(runCalls, i)
                  /\ UNCHANGED <<step, reportReady, loading, lastInputs, form, errors,
                                 pdfCalls, alert, nPdf, nSaved, lastRunBody, succeeded, route>>

\* await res.json() settles: setReportReady(true) when the body parses,
\* the catch block when it does not
RunJsonSettles ==
    /\ Idle
    /\ \E i \in 1..Len(runCalls) :
          /\ runCalls[i].pc = "json"
          /\ IF Parseable(runCalls[i].body)
             THEN /\ reportReady' = TRUE
                  /\ runModelFinally(i)
                  /\ UNCHANGED <<step, lastInputs, form, errors, pdfCalls, alert,
                                 nPdf, nSaved, unhandled, lastRunBody, succeeded, route>>
             ELSE runModelCatch(i, "Unexpected token")

\* Mutant: setLoading(false) sits at the end of the try block, not in a
\* finally block, so that a failed invocation returns without it
AlertDismissed_NoFinally ==
    /\ alert # "none"
    /\ \E i \in 1..Len(runCalls) :
          /\ runCalls[i].pc = "alert"
          /\ runCalls' = Remove(runCalls, i)
    /\ alert' = "none"
    /\ UNCHANGED <<step, reportReady, loading, lastInputs, form, errors, pdfCalls,
                   nPdf, nSaved, unhandled, lastRunBody, succeeded, route>>

\* The user dismisses the alert; runModel goes on to its finally block
AlertDismissed ==
    /\ alert # "none"
    /\ \E i \in 1..Len(runCalls) :
          /\ runCalls[i].pc = "alert"
          /\ runModelFinally(i)
    /\ alert' = "none"
    /\ UNCHANGED <<step, reportReady, lastInputs, form, errors, pdfCalls, nPdf,
                   nSaved, unhandled, lastRunBody, succeeded, route>>

\* Mutant: the download locks the report again
downloadPdf_Relocks ==
    IF lastInputs = Null
    THEN UNCHANGED vars
    ELSE /\ pdfCalls' = Append(pdfCalls, [inputs |-> lastInputs, pc |-> "fetch"])
         /\ nPdf' = nPdf + 1
         /\ reportReady' = FALSE
         /\ UNCHANGED <<step, loading, lastInputs, form, errors,
                        runCalls, alert, nSaved, unhandled, lastRunBody, succeeded, route>>

\* Mutant: the download sends the form's current values, not lastInputs
downloadPdf_CurrentForm ==
    IF lastInputs = Null
    THEN UNCHANGED vars
    ELSE /\ pdfCalls' = Append(pdfCalls, [inputs |-> safeParse(form).data, pc |-> "fetch"])
         /\ nPdf' = nPdf + 1
         /\ UNCHANGED <<step, reportReady, loading, lastInputs, form, errors,
                        runCalls, alert, nSaved, unhandled, lastRunBody, succeeded, route>>

\* downloadPdf, up to its first await: the /pdf request is sent
downloadPdf ==
    IF lastInputs = Null
    THEN UNCHANGED vars
    ELSE /\ pdfCalls' = Append(pdfCalls, [inputs |-> lastInputs, pc |-> "fetch"])
         /\ nPdf' = nPdf + 1
         /\ UNCHANGED <<step, reportReady, loading, lastInputs, form, errors,
                        runCalls, alert, nSaved, unhandled, lastRunBody, succeeded, route>>

\* The download button may be clicked: rendered when reportReady
DownloadEnabled == reportReady

\* Download report button
Download ==
    /\ Idle
    /\ DownloadEnabled
    /\ nPdf < MaxDownloads
    /\ downloadPdf

\* await fetch(.../pdf) settles: a rejection is caught by nobody; a response
\* of any status goes on to res.blob()
PdfFetchSettles ==
    /\ Idle
    /\ \E i \in 1..Len(pdfCalls) :
          /\ pdfCalls[i].pc = "fetch"
          /\ \/ /\ pdfCalls' = Remove(pdfCalls, i)
                /\ unhandled' = TRUE
                /\ UNCHANGED nSaved
             \/ /\ pdfCalls' = [pdfCalls EXCEPT ![i].pc = "blob"]
                /\ UNCHANGED <<unhandled, nSaved>>
    /\ UNCHANGED <<step, reportReady, loading, lastInputs, form, errors, runCalls,
                   alert, nPdf, lastRunBody, succeeded, route>>

\* await res.blob() settles: the file save is triggered and the object URL
\* revoked, or the rejection is caught by nobody
PdfBlobSettles ==
    /\ Idle
    /\ \E i \in 1..Len(pdfCalls) :
          /\ pdfCalls[i].pc = "blob"
          /\ pdfCalls' = Remove(pdfCalls, i)
          /\ \/ nSaved' = nSaved + 1 /\ UNCHANGED unhandled
             \/ unhandled' = TRUE /\ UNCHANGED nSaved
    /\ UNCHANGED <<step, reportReady, loading, lastInputs, form, errors, runCalls,
                   alert, nPdf, lastRunBody, succeeded, route>>

Next ==
    \/ Back
    \/ NextStep
    \/ EditField
    \/ Generate
    \/ RunFetchSettles
    \/ RunJsonSettles
    \/ AlertDismissed
    \/ Download
    \/ PdfFetchSettles
    \/ PdfBlobSettles

Spec == Init /\ [][Next]_vars

TypeOK ==
    /\ step \in 0..2
    /\ reportReady \in BOOLEAN
    /\ loading \in BOOLEAN
    /\ alert \in {"none", "Failed to fetch", "Evaluation failed", "Unexpected token"}
    /\ nPdf \in 0..MaxDownloads
    /\ nSaved \in 0..nPdf
    /\ Len(pdfCalls) <= nPdf

\* ------------------------------------------------------------- route
\* POST /api/evaluate (app/api/evaluate/route.ts): one request, one response.

\* parsed.error.flatten(): the issues, grouped by the field of their path
flatten(issues) ==
    [formErrors |-> {},
     fieldErrors |-> [f \in {i.path : i \in issues} |->
                        {i.code : i \in {j \in issues : j.path = f}}]]

\* Mutant: the note tests the field for presence, not for truthiness
Truthy_Present(v) == v.t # "undefined"

\* the truthiness of an optional number: undefined and 0 are falsy
Truthy(v) == v.t = "number" /\ v.v # 0

\* the mock payload; confidence 0.78 is in hundredths
MockPayload(data) ==
    [verdict |-> "LIKELY",
     confidence |-> 78,
     annual_savings_eur |-> <<300, 900>>,
     payback_years |-> <<8, 14>>,
     assumptions |-> <<"Electricity price held constant in real terms",
                       "Typical seasonal efficiency assumed for system type and emitters",
                       "No fabric upgrades included unless stated">>,
     notes |-> <<IF Truthy(data["annual_spend_eur"])
                 THEN "Annual spend provided: confidence increased."
                 ELSE "Annual spend missing: results rely on typical consumption estimates.">>,
     pdf_url |-> Null]

\* the response of the handler to a JSON body
Respond(json) ==
    LET p == safeParse(json) IN
    IF ~p.success
    THEN [status |-> 400,
          body |-> [error |-> "Invalid input", details |-> flatten(p.issues)]]
    ELSE [status |-> 200, body |-> MockPayload(p.data)]

\* The JSON bodies the endpoint is sent: the wizard's defaults (a valid
\* body) with some fields replaced.  An absent key reads undefined.
GrantRaws ==
    {Bool(TRUE), Str(<<"t", "r", "u", "e">>), Str(<<"o", "n">>), Str(<<"1">>), Num(H(1)),
     Bool(FALSE), Str(<<"f", "a", "l", "s", "e">>), Str(<<"o", "f", "f">>), Str(<<"0">>),
     Num(0), Null, Str(<<>>),
     Undef, Str(<<"y", "e", "s">>), Str(<<"T", "R", "U", "E">>), Str(<<"n", "o">>),
     Str(<<" ", "1">>), Num(H(2)), Num(0 - H(1)), Num(50)}
OccupantRaws ==
    {Num(0), Num(H(1)), Num(H(2)), Num(250), Num(H(20)), Num(H(21)), Num(0 - H(1)),
     Str(<<"0">>), Str(<<"1">>), Str(<<"2", "0">>), Str(<<"2", "1">>),
     Str(<<"2", ".", "5">>), Str(<<" ", "2", "0", " ">>), Str(<<"2", ".", "0">>)}
FloorRaws ==
    {Num(H(19)), Num(H(20)), Num(H(120)), Num(H(1000)), Num(H(1001)), Num(1999),
     Num(100001),
     Str(<<"1", "9">>), Str(<<"2", "0">>), Str(<<"1", "0", "0", "0">>),
     Str(<<"1", "0", "0", "1">>), Str(<<"2", "0", ".", "5">>)}
BillModeRaws == {Str(W_annual_fuel_use), Str(W_annual_spend), Str(W_none), Str(<<"N", "o", "n", "e">>)}
SpendRaws == {Undef, Num(H(2400)), Num(0), Str(<<"2", "4", "0", "0">>), Str(<<>>), Null}
FuelUseRaws == {Undef, Num(H(1000)), Str(<<>>)}
FloorFaults == {Num(H(120)), Num(H(19)), Str(<<"a", "b", "c">>), Str(<<>>)}
OccupantFaults == {Num(H(2)), Num(250)}

GrantBodies == {[defaultValues EXCEPT !["grant_applied"] = g] : g \in GrantRaws}
BoundBodies ==
    {[defaultValues EXCEPT !["occupants"] = o, !["floor_area_m2"] = a] :
        o \in OccupantRaws, a \in FloorRaws}
BillBodies ==
    {[defaultValues EXCEPT !["bill_mode"] = m, !["annual_spend_eur"] = s,
                           !["annual_fuel_use"] = u, !["floor_area_m2"] = a,
                           !["occupants"] = o] :
        m \in BillModeRaws, s \in SpendRaws, u \in FuelUseRaws, a \in FloorFaults,
        o \in OccupantFaults}
RequestBodies == GrantBodies \cup BoundBodies \cup BillBodies

RouteInit ==
    /\ step = 0
    /\ reportReady = FALSE
    /\ loading = FALSE
    /\ lastInputs = Null
    /\ form = defaultValues
    /\ errors = {}
    /\ runCalls = <<>>
    /\ pdfCalls = <<>>
    /\ alert = "none"
    /\ nPdf = 0
    /\ nSaved = 0
    /\ unhandled = FALSE
    /\ lastRunBody = Null
    /\ succeeded = {}
    /\ request \in RequestBodies
    /\ parsed = Undef
    /\ response = Undef

\* the handler: req.json(), safeParse, and one of the two responses
POST ==
    /\ response = Undef
    /\ parsed' = safeParse(request)
    /\ response' = Respond(request)
    /\ UNCHANGED <<step, reportReady, loading, lastInputs, form, errors, runCalls,
                   pdfCalls, alert, nPdf, nSaved, unhandled, lastRunBody, succeeded,
                   request>>

RouteNext == POST

RouteSpec == RouteInit /\ [][RouteNext]_vars

\* ------------------------------------------------------------- properties
\* A typed, bounds-checked ClearHeatInput record (the data model of the
\* schema, stated on the typed values and not through the parser).
InRange(x, lo, hi) == x.t = "number" /\ lo <= x.v /\ x.v <= hi
IsClearHeatInput(x) ==
    /\ DOMAIN x = Fields
    /\ x["ber_band"].t = "string" /\ x["ber_band"].s \in BerBands
    /\ InRange(x["floor_area_m2"], 2000, 100000)
    /\ x["emitters"].t = "string"
    /\ x["heating_pattern"].t = "string"
    /\ x["wood_use"].t = "string"
    /\ InRange(x["occupants"], 100, 2000) /\ x["occupants"].v % 100 = 0
    /\ x["fuel_type"].t = "string"
    /\ InRange(x["fuel_price_eur_per_unit"], 0, 1000)
    /\ InRange(x["electricity_price_eur_per_kwh"], 0, 1000)
    /\ InRange(x["boiler_efficiency"], 30, 100)
    /\ InRange(x["hp_quote_eur"], 0, 20000000)
    /\ x["grant_applied"].t = "boolean"
    /\ InRange(x["grant_value_eur"], 0, 5000000)
    /\ x["bill_mode"].t = "string"
    /\ x["annual_fuel_use"].t \in {"undefined", "number"}
    /\ x["annual_spend_eur"].t \in {"undefined", "number"}
    /\ x["bill_mode"].s = W_annual_spend => x["annual_spend_eur"].t = "number"
    /\ x["bill_mode"].s = W_annual_fuel_use => x["annual_fuel_use"].t = "number"

\* this step sends a /run request
RunIssued == Len(runCalls') > Len(runCalls)
\* this step sends a /pdf request
PdfIssued == nPdf' # nPdf
\* this step is a click on "generate report" whose validation fails
ValidationFails == errors' # {} /\ errors' # errors

\* C1: a click on "generate report" whose form values fail the schema sends
\* no /run request and leaves loading false, reportReady, lastInputs and the
\* step (Step 3) as they were; every /run request that is sent carries the
\* parsed values of a form that passed validation, a well-typed record.
C1_ValidationGate ==
    [][/\ ValidationFails =>
            /\ ~safeParse(form).success
            /\ ~RunIssued
            /\ step' = 2 /\ ~loading'
            /\ UNCHANGED <<step, loading, reportReady, lastInputs, runCalls,
                           lastRunBody, succeeded, route>>
       /\ RunIssued =>
            /\ safeParse(form).success
            /\ lastRunBody' = safeParse(form).data
            /\ runCalls'[Len(runCalls')].inputs = lastRunBody'
            /\ IsClearHeatInput(lastRunBody')]_vars
\* a failed validation on Step 3, nothing sent
C1_Witness ==
    /\ errors # {} /\ step = 2 /\ ~safeParse(form).success
    /\ ~loading /\ runCalls = <<>> /\ lastRunBody = Null

\* C2: at most one /run request is in flight in every reachable state.
C2_SingleRunInFlight == Len(runCalls) <= 1
\* a request is in flight while Step 3 shows a form that would validate
C2_Witness ==
    /\ Len(runCalls) = 1 /\ runCalls[1].pc = "fetch"
    /\ step = 2 /\ safeParse(form).success /\ alert = "none"

\* a runModel invocation that got a success status returns in this step
OkCallReturns ==
    \E i \in 1..Len(runCalls) :
        runCalls[i].body # "none" /\ runCalls' = Remove(runCalls, i)
\* the same, for a body that parses as JSON
JsonCallReturns ==
    \E i \in 1..Len(runCalls) :
        /\ runCalls[i].body \in {"json_result", "json_other"}
        /\ runCalls' = Remove(runCalls, i)

\* C3, as claimed: reportReady is set exactly when a /run call returned a
\* success status, whatever its body.
C3_Original ==
    [][/\ OkCallReturns => reportReady'
       /\ reportReady' # reportReady => OkCallReturns /\ reportReady']_vars
\* C3, amended: reportReady is set exactly when a /run call returned a
\* success status with a body that parses as JSON, whichever JSON it is; no
\* other step changes it, and it is never reset.
C3_ReadyOnParsedSuccess ==
    [][/\ JsonCallReturns => reportReady'
       /\ reportReady' # reportReady => JsonCallReturns /\ reportReady']_vars
\* a /run call has unlocked the report; nothing is in flight or downloaded
C3_Witness == reportReady /\ runCalls = <<>> /\ ~loading /\ nPdf = 0

\* a failed runModel invocation returns in this step (its alert is closed)
FailedCallReturns == alert # "none" /\ alert' = "none"

\* C4: when a submission ends in a non-success status or a transport
\* failure, the wizard is on Step 3 and reportReady is false once the call
\* has completed (the alert has been shown).
C4_FailureLeavesStep3NotReady ==
    [][FailedCallReturns /\ alert \in {"Evaluation failed", "Failed to fetch"}
         => step' = 2 /\ ~reportReady']_vars

\* C5: loading is true exactly while a runModel invocation has not
\* returned; after every completed call it is false again.
C5_LoadingRolledBack == loading <=> runCalls # <<>>
\* a submission has failed and the form can be submitted again
C5_Witness ==
    /\ lastInputs # Null /\ ~reportReady /\ runCalls = <<>> /\ ~loading
    /\ alert = "none" /\ step = 2

\* C6: a download changes none of step, loading, reportReady, lastInputs;
\* it sends one /pdf request with the cached lastInputs and no /run request;
\* neither does the completion of a download change the wizard state.
C6_DownloadFrame ==
    [][/\ PdfIssued =>
            /\ nPdf' = nPdf + 1
            /\ pdfCalls' = Append(pdfCalls, [inputs |-> lastInputs, pc |-> "fetch"])
            /\ UNCHANGED <<step, loading, reportReady, lastInputs, runCalls,
                           lastRunBody, form, errors>>
       /\ pdfCalls' # pdfCalls =>
            UNCHANGED <<step, loading, reportReady, lastInputs, runCalls,
                        lastRunBody, succeeded, route>>]_vars
\* two downloads have completed
C6_Witness == nSaved = 2 /\ pdfCalls = <<>> /\ reportReady

\* C7: a /pdf request carries exactly the inputs of the body of the latest
\* /run request, and an edit of a form field changes neither.
C7_FrozenInputs ==
    [][/\ PdfIssued => pdfCalls'[Len(pdfCalls')].inputs = lastRunBody
       /\ form' # form => UNCHANGED <<lastInputs, lastRunBody, pdfCalls>>]_vars
\* a download was sent after the form was edited away from what was submitted
C7_Witness ==
    /\ Len(pdfCalls) = 1
    /\ safeParse(form).success
    /\ safeParse(form).data # pdfCalls[1].inputs
    /\ pdfCalls[1].inputs = lastRunBody

\* the fetch of a /pdf request rejects in this step
PdfTransportError ==
    \E i \in 1..Len(pdfCalls) :
        pdfCalls[i].pc = "fetch" /\ pdfCalls' = Remove(pdfCalls, i)

\* C8: a transport error of the /pdf call is shown to the user as an alert.
C8_PdfErrorAlerts == [][PdfTransportError => alert' # "none"]_vars

\* the res.json() of a success response with an unparseable body settles
BadJsonSettles ==
    \E i \in 1..Len(runCalls) :
        /\ runCalls[i].pc = "json" /\ runCalls[i].body = "not_json"
        /\ runCalls' # runCalls

\* C9: a success status with a body that is not JSON is a failure: an alert
\* is shown, reportReady is not set, nothing is left unhandled, and loading
\* is false once the alert is closed.
C9_BadJsonIsFailure ==
    [][/\ BadJsonSettles =>
            /\ alert' = "Unexpected token"
            /\ UNCHANGED <<reportReady, unhandled>>
       /\ (alert = "Unexpected token" /\ alert' # alert) =>
            /\ ~loading'
            /\ runCalls' = <<>>
            /\ UNCHANGED <<reportReady, unhandled>>]_vars
\* the failure of an unparseable body has been handled
C9_Witness ==
    /\ alert = "Unexpected token"
    /\ \E i \in 1..Len(runCalls) : runCalls[i].body = "not_json"
    /\ ~reportReady /\ ~unhandled

\* C10: at most one request (/run or /pdf) is in flight in every state.
C10_SingleRequestInFlight == Len(runCalls) + Len(pdfCalls) <= 1

\* ------------------------------------------------------------- schema properties
\* the handler has answered
Answered == response # Undef
\* the fields named by the issues of the handler's parse
IssuePaths == {i.path : i \in parsed.issues}
\* the request is the valid default body but for the fields in fs
DefaultBut(fs) == \A f \in Fields \ fs : request[f] = defaultValues[f]

\* C11: with bill_mode = annual_spend and annual_spend_eur absent, validation
\* fails with an error at path annual_spend_eur; the same for annual_fuel_use;
\* hence a validated record holds the field its bill_mode selects.
C11_CrossFieldRule ==
    Answered =>
        /\ (request["bill_mode"] = Str(W_annual_spend)
              /\ request["annual_spend_eur"] = Undef)
             => ~parsed.success /\ "annual_spend_eur" \in IssuePaths
        /\ (request["bill_mode"] = Str(W_annual_fuel_use)
              /\ request["annual_fuel_use"] = Undef)
             => ~parsed.success /\ "annual_fuel_use" \in IssuePaths
        /\ (parsed.success /\ parsed.data["bill_mode"] = Str(W_annual_spend))
             => parsed.data["annual_spend_eur"].t = "number"
        /\ (parsed.success /\ parsed.data["bill_mode"] = Str(W_annual_fuel_use))
             => parsed.data["annual_fuel_use"].t = "number"

\* an optional field is absent, holds a valid number, or holds the empty
\* value of a cleared form input
AbsentValidOrEmpty(v) == v \in {Undef, Num(H(2400)), Num(H(1000)), Str(<<>>)}

\* C12: with bill_mode = none and the other fields valid, validation
\* succeeds whether annual_fuel_use and annual_spend_eur are present, absent
\* or supplied as an empty value.
C12_NoneModeAccepts ==
    (/\ Answered
     /\ request["bill_mode"] = Str(W_none)
     /\ DefaultBut({"bill_mode", "annual_spend_eur", "annual_fuel_use"})
     /\ AbsentValidOrEmpty(request["annual_spend_eur"])
     /\ AbsentValidOrEmpty(request["annual_fuel_use"]))
    => parsed.success /\ response.status = 200

GrantTrue ==
    {Bool(TRUE), Str(<<"t", "r", "u", "e">>), Str(<<"o", "n">>), Str(<<"1">>), Num(100)}
GrantFalse ==
    {Bool(FALSE), Str(<<"f", "a", "l", "s", "e">>), Str(<<"o", "f", "f">>), Str(<<"0">>),
     Num(0), Null, Str(<<>>)}
\* what validation makes of grant_applied, when the raw values of tt are to
\* give true, those of ff false, and every other one a failure
GrantCoercion(tt, ff) ==
    LET g == request["grant_applied"] IN
    /\ g \in tt => /\ "grant_applied" \notin IssuePaths
                   /\ parsed.data["grant_applied"] = Bool(TRUE)
    /\ g \in ff => /\ "grant_applied" \notin IssuePaths
                   /\ parsed.data["grant_applied"] = Bool(FALSE)
    /\ g \notin tt \cup ff => /\ "grant_applied" \in IssuePaths
                              /\ ~parsed.success
                              /\ response.status = 400

\* C13, as claimed: true, "true", "on", "1", 1 give true; false, "false",
\* "off", "0", 0, null, "" give false; every other raw value fails.
C13_Original == Answered => GrantCoercion(GrantTrue, GrantFalse)
\* C13, amended: an absent grant_applied (undefined) gives false as well.
C13_GrantCoercion == Answered => GrantCoercion(GrantTrue, GrantFalse \cup {Undef})
\* "on" was validated to true, in a body that passed
C13_Witness ==
    /\ Answered /\ request["grant_applied"] = Str(<<"o", "n">>)
    /\ parsed.success /\ parsed.data["grant_applied"] = Bool(TRUE)

\* The number each raw text of the request bodies stands for, in hundredths
Numerals ==
    {<<Str(<<"0">>), 0>>, <<Str(<<"1">>), 100>>, <<Str(<<"2", "0">>), 2000>>,
     <<Str(<<"2", "1">>), 2100>>, <<Str(<<"2", ".", "5">>), 250>>,
     <<Str(<<" ", "2", "0", " ">>), 2000>>, <<Str(<<"2", ".", "0">>), 200>>,
     <<Str(<<"1", "9">>), 1900>>, <<Str(<<"1", "0", "0", "0">>), 100000>>,
     <<Str(<<"1", "0", "0", "1">>), 100100>>, <<Str(<<"2", "0", ".", "5">>), 2050>>}
Meaning(raw) ==
    IF raw.t = "number" THEN raw.v ELSE (CHOOSE c \in Numerals : c[1] = raw)[2]

\* C14: occupants is accepted exactly when it is an integer from 1 to 20,
\* floor_area_m2 exactly when it lies from 20 to 1000, bounds included, as a
\* number or as a numeric-looking string.
C14_InclusiveBounds ==
    (Answered /\ request \in BoundBodies) =>
        LET o == Meaning(request["occupants"])
            a == Meaning(request["floor_area_m2"])
            occOk == o % 100 = 0 /\ 100 <= o /\ o <= 2000
            areaOk == 2000 <= a /\ a <= 100000
        IN /\ ("occupants" \notin IssuePaths) <=> occOk
           /\ ("floor_area_m2" \notin IssuePaths) <=> areaOk
           /\ parsed.success <=> (occOk /\ areaOk)
           /\ (response.status = 200) <=> (occOk /\ areaOk)
           /\ parsed.success =>
                /\ parsed.data["occupants"] = Num(o)
                /\ parsed.data["floor_area_m2"] = Num(a)
\* both upper bounds were accepted, one of them as a string
C14_Witness ==
    /\ Answered /\ response.status = 200
    /\ request["occupants"] = Str(<<"2", "0">>)
    /\ request["floor_area_m2"] = Num(H(1000))

\* the fields whose own constraint the request violates
FieldViolations == {f \in Fields : ParseField(f, request[f]).codes # {}}
\* the fields the bill_mode of the request requires and the request lacks
CrossViolations ==
    (IF request["bill_mode"] = Str(W_annual_spend) /\ request["annual_spend_eur"] = Undef
     THEN {"annual_spend_eur"} ELSE {})
    \cup
    (IF request["bill_mode"] = Str(W_annual_fuel_use) /\ request["annual_fuel_use"] = Undef
     THEN {"annual_fuel_use"} ELSE {})

\* C15: the failure result names every violated constraint, the cross-field
\* one together with the per-field ones.
C15_NoShortCircuit ==
    Answered =>
        /\ IssuePaths = FieldViolations \cup CrossViolations
        /\ response.status = 400 =>
             DOMAIN response.body.details.fieldErrors
               = FieldViolations \cup CrossViolations

RequiredNumeric ==
    {"floor_area_m2", "occupants", "fuel_price_eur_per_unit",
     "electricity_price_eur_per_kwh", "boiler_efficiency", "hp_quote_eur",
     "grant_value_eur"}
OptionalNumeric == {"annual_fuel_use", "annual_spend_eur"}

\* C16: an empty string in a numeric field is absent, never a number: a
\* required field fails as missing, an optional one validates as absent.
C16_EmptyIsAbsent ==
    Answered =>
        /\ \A f \in RequiredNumeric :
              request[f] = Str(<<>>) =>
                /\ ~parsed.success
                /\ "invalid_type" \in {i.code : i \in {j \in parsed.issues : j.path = f}}
        /\ \A f \in OptionalNumeric :
              request[f] = Str(<<>>) =>
                /\ f \notin IssuePaths
                /\ parsed.data[f] = Undef

\* the payload but for its notes
Fixed(body) ==
    [k \in DOMAIN body \ {"notes"} |-> body[k]]
\* the endpoint answers a failed validation with 400, {error, details}
Answers400 ==
    /\ response.status = 400
    /\ DOMAIN response.body = {"error", "details"}
    /\ response.body.error = "Invalid input"
    /\ DOMAIN response.body.details.fieldErrors = IssuePaths
    /\ IssuePaths # {}

\* C18, as claimed: 400 with {error, details} for every body that fails
\* validation; one success payload, the same for all valid bodies.
C18_Original ==
    Answered =>
        IF parsed.success
        THEN response.status = 200 /\ response.body = Respond(defaultValues).body
        ELSE Answers400
\* C18, amended: the success payload is the same for all valid bodies but
\* for its one note, which says "provided" when annual_spend_eur is a
\* non-zero number and "missing" otherwise.
C18_MockEndpoint ==
    Answered =>
        IF parsed.success
        THEN /\ response.status = 200
             /\ DOMAIN response.body =
                  {"verdict", "confidence", "annual_savings_eur", "payback_years",
                   "assumptions", "notes", "pdf_url"}
             /\ response.body.pdf_url = Null
             /\ Fixed(response.body) = Fixed(Respond(defaultValues).body)
             /\ response.body.notes =
                  IF request["annual_spend_eur"] \in {Num(H(2400)), Str(<<"2", "4", "0", "0">>)}
                  THEN <<"Annual spend provided: confidence increased.">>
                  ELSE <<"Annual spend missing: results rely on typical consumption estimates.">>
        ELSE Answers400
\* a valid body with annual_spend_eur 0 was answered with the "missing" note
C18_Witness ==
    /\ Answered /\ response.status = 200
    /\ request["annual_spend_eur"] = Num(0)
    /\ response.body.notes # Respond(defaultValues).body.notes

\* ------------------------------------------------------------- wizard properties, continued
\* C17: the wizard starts at Step 1; next is offered on Steps 1 and 2 whatever
\* the form holds and moves one step on; back is disabled at Step 1 and
\* moves one step back; generate and download leave the step alone; the
\* step is always one of the three.
C17_Navigation ==
    /\ step = 0
    /\ [](step \in {0, 1, 2})
    /\ []((Idle /\ step < 2) => ENABLED NextStep)
    /\ [](step = 2 => ~ENABLED NextStep)
    /\ [](step = 0 => ~ENABLED Back)
    /\ [][(step' # step) => ((step < 2 /\ step' = step + 1) \/ (step > 0 /\ step' = step - 1))]_vars
    /\ [][(RunIssued \/ PdfIssued \/ ValidationFails) => (step' = step)]_vars
\* Step 3 was reached with a form that does not validate and was never checked
C17_Witness == step = 2 /\ ~safeParse(form).success /\ errors = {} /\ lastInputs = Null

\* C19: a /pdf request carries inputs for which a /run call returned
\* success.
C19_PdfInputsSucceeded ==
    [][PdfIssued => pdfCalls'[Len(pdfCalls')].inputs \in succeeded]_vars

\* C20: reportReady implies a non-null lastInputs and is never reset; the
\* download is offered only when reportReady, so that downloadPdf never
\* takes its early return.
C20_ReadyHasInputs ==
    /\ [](reportReady => lastInputs # Null)
    /\ [](ENABLED Download => reportReady /\ lastInputs # Null)
    /\ [][reportReady => reportReady']_vars
\* a download went out with the cached inputs
C20_Witness ==
    /\ reportReady /\ nPdf = 1 /\ Len(pdfCalls) = 1
    /\ lastInputs # Null /\ pdfCalls[1].inputs = lastInputs

\* C21: the default form values satisfy the schema, every bound, every enum
\* and the bill_mode rule; the wizard starts with them; a click on "generate
\* report" with no field edited never fails validation and sends a /run
\* request that carries exactly the defaults.
C21_DefaultsValid ==
    /\ form = defaultValues
    /\ safeParse(defaultValues).success
    /\ safeParse(defaultValues).issues = {}
    /\ safeParse(defaultValues).data = defaultValues
    /\ IsClearHeatInput(defaultValues)
    /\ []((form = defaultValues /\ step = 2 /\ Idle /\ GenerateEnabled) => ENABLED Generate)
    /\ [][(form = defaultValues) => ~ValidationFails]_vars
    /\ [][(form = defaultValues /\ RunIssued) =>
            /\ runCalls'[Len(runCalls')].inputs = defaultValues
            /\ lastRunBody' = defaultValues
            /\ errors' = {}]_vars
\* next, next, generate report from the initial state: the /run request is
\* out with the defaults, nothing edited, nothing flagged
C21_Witness ==
    /\ step = 2 /\ form = defaultValues /\ errors = {}
    /\ loading /\ ~reportReady
    /\ Len(runCalls) = 1 /\ runCalls[1].inputs = defaultValues
    /\ lastRunBody = defaultValues /\ succeeded = {}

====
